---------------------------- MODULE Spec2Model ----------------------------
(***************************************************************************)
(* A model of gen_clock.py, the watch face packer: check_clock (the layout *)
(* validator), image_pre_build (PNG -> BMP -> device RGB chunk -> LZ4      *)
(* chunk, the BMP -> RGB stage on a process pool), and gen_clock_res (the  *)
(* asset loop that fills the thumbnail slot, the main region, the Z-region *)
(* and the image table, the layer serializer, and the writer of the        *)
(* Clock<id>_res file).                                                     *)
(*                                                                         *)
(* File names are sequences of one-character strings, file contents are    *)
(* sequences of bytes (0..255), a directory is the sequence of its entries *)
(* in creation order.                                                      *)
(***************************************************************************)
EXTENDS Integers, Sequences, FiniteSets, TLC

(***************************************************************************)
(* Bounds of the model.                                                    *)
(***************************************************************************)
\* most files in a source directory
MaxFiles == 2
\* most layers in a config.json
MaxLayers == 2

(***************************************************************************)
(* Strings.                                                                *)
(***************************************************************************)
\* str.startswith(p)
StartsWith(s, p) == Len(s) >= Len(p) /\ SubSeq(s, 1, Len(p)) = p

\* str.endswith(p)
EndsWith(s, p) == Len(s) >= Len(p) /\ SubSeq(s, Len(s) - Len(p) + 1, Len(s)) = p

\* `p in s` for strings
Contains(s, p) ==
    \E i \in 1..(Len(s) - Len(p) + 1) : SubSeq(s, i, i + Len(p) - 1) = p

\* the positions of the dots of s
Dots(s) == {i \in 1..Len(s) : s[i] = "."}

Min(S) == CHOOSE x \in S : \A y \in S : x <= y
Max(S) == CHOOSE x \in S : \A y \in S : x >= y

RECURSIVE SplitDot(_)
\* str.split('.')
SplitDot(s) ==
    IF Dots(s) = {} THEN <<s>>
    ELSE LET i == Min(Dots(s))
         IN  <<SubSeq(s, 1, i - 1)>> \o SplitDot(SubSeq(s, i + 1, Len(s)))

\* os.path.splitext(name)[0]: the name up to its last dot, when something
\* other than dots stands before that dot
SplitExtRoot(s) ==
    IF Dots(s) = {} THEN s
    ELSE LET i == Max(Dots(s))
         IN  IF \E j \in 1..(i - 1) : s[j] # "." THEN SubSeq(s, 1, i - 1) ELSE s

\* os.path.splitext(name)[1].strip('.')
Extension(s) ==
    IF Dots(s) = {} THEN <<>>
    ELSE LET i == Max(Dots(s))
         IN  IF \E j \in 1..(i - 1) : s[j] # "." THEN SubSeq(s, i + 1, Len(s)) ELSE <<>>

Digits == <<"0", "1", "2", "3", "4", "5", "6", "7", "8", "9">>
Uppers ==
    <<"A", "B", "C", "D", "E", "F", "G", "H", "I", "J", "K", "L", "M",
      "N", "O", "P", "Q", "R", "S", "T", "U", "V", "W", "X", "Y", "Z">>
Lowers ==
    <<"a", "b", "c", "d", "e", "f", "g", "h", "i", "j", "k", "l", "m",
      "n", "o", "p", "q", "r", "s", "t", "u", "v", "w", "x", "y", "z">>

\* the position of c in the sequence s, 0 when it is not there
IndexOf(s, c) == IF \E k \in 1..Len(s) : s[k] = c THEN CHOOSE k \in 1..Len(s) : s[k] = c ELSE 0

\* the code point of a character, which is its UTF-8 byte
Code(c) ==
    IF IndexOf(Digits, c) > 0 THEN 47 + IndexOf(Digits, c)
    ELSE IF IndexOf(Uppers, c) > 0 THEN 64 + IndexOf(Uppers, c)
    ELSE IF IndexOf(Lowers, c) > 0 THEN 96 + IndexOf(Lowers, c)
    ELSE IF c = "_" THEN 95
    ELSE 46

\* str.lower() on one character
LowerChar(c) == IF IndexOf(Uppers, c) > 0 THEN Lowers[IndexOf(Uppers, c)] ELSE c

\* str.lower()
Lower(s) == [i \in 1..Len(s) |-> LowerChar(s[i])]

RECURSIVE NameLess(_, _)
\* s < t for strings
NameLess(s, t) ==
    IF t = <<>> THEN FALSE
    ELSE IF s = <<>> THEN TRUE
    ELSE IF Code(Head(s)) # Code(Head(t)) THEN Code(Head(s)) < Code(Head(t))
    ELSE NameLess(Tail(s), Tail(t))

(***************************************************************************)
(* Bytes and integers.                                                     *)
(***************************************************************************)
RECURSIVE BitOr(_, _)
\* a | b on naturals
BitOr(a, b) ==
    IF a = 0 THEN b
    ELSE IF b = 0 THEN a
    ELSE (IF a % 2 = 1 \/ b % 2 = 1 THEN 1 ELSE 0) + 2 * BitOr(a \div 2, b \div 2)

RECURSIVE BitAnd(_, _)
\* a & b on naturals
BitAnd(a, b) ==
    IF a = 0 \/ b = 0 THEN 0
    ELSE (IF a % 2 = 1 /\ b % 2 = 1 THEN 1 ELSE 0) + 2 * BitAnd(a \div 2, b \div 2)

\* struct.pack('>I', v), for 0 <= v < 2^31
PackU32(v) ==
    <<(v \div 16777216) % 256, (v \div 65536) % 256, (v \div 256) % 256, v % 256>>

\* struct.pack('>i', v): the two's complement of v, most significant byte first
PackI32(v) ==
    IF v >= 0 THEN PackU32(v)
    ELSE LET w == (-v) - 1
         IN  <<255 - ((w \div 16777216) % 256), 255 - ((w \div 65536) % 256),
               255 - ((w \div 256) % 256), 255 - (w % 256)>>

\* struct.pack('<H', v)
PackU16LE(v) == <<v % 256, (v \div 256) % 256>>

RECURSIVE Concat(_)
\* the concatenation of a sequence of sequences
Concat(ss) == IF ss = <<>> THEN <<>> ELSE Head(ss) \o Concat(Tail(ss))

\* n zero bytes
Zeros(n) == [i \in 1..n |-> 0]

\* s[:n]
Take(s, n) == SubSeq(s, 1, IF n < Len(s) THEN n ELSE Len(s))

\* s[n:]
Drop(s, n) == SubSeq(s, n + 1, Len(s))

\* the 16-byte chunk header: type, compressed flag, 24-bit little-endian
\* size, 12-bit height and width packed into bytes 5..7, eight zero bytes
ChunkHeader(img_type, size, width, height) ==
    <<img_type, 0,
      BitAnd(size, 255), BitAnd(size \div 256, 255), BitAnd(size \div 65536, 255),
      BitAnd(height, 255),
      BitOr(BitAnd(height \div 256, 15), BitAnd(width, 15) * 16),
      BitAnd(width \div 16, 255)>> \o Zeros(8)

(***************************************************************************)
(* Files.  A file is [name, sub, bytes, img, bmp]: sub says that it lies   *)
(* in a sub-directory, bytes is what open(path, 'rb').read() returns, img  *)
(* is what PIL's Image.open makes of it, and bmp holds the parsed fields   *)
(* of a BMP file (the intermediates of the temporary directory).           *)
(***************************************************************************)
NoImg == [ok |-> FALSE, alpha |-> FALSE, w |-> 0, h |-> 0, pix |-> <<>>]

NoBmp == [valid |-> FALSE, w |-> 0, h |-> 0, bpp |-> 0, top_down |-> FALSE, rows |-> <<>>]

RECURSIVE SortByName(_)
\* the entries of a directory in the order of their names
SortByName(dir) ==
    IF dir = <<>> THEN <<>>
    ELSE LET first == CHOOSE i \in 1..Len(dir) :
                        \A j \in 1..Len(dir) : j = i \/ NameLess(dir[i].name, dir[j].name)
         IN  <<dir[first]>> \o
             SortByName(SubSeq(dir, 1, first - 1) \o SubSeq(dir, first + 1, Len(dir)))

\* os.walk / os.listdir: "the list is in arbitrary order".  Two kinds of file
\* system: one lists a directory in an order fixed by the names (NTFS, ext4's
\* hashed directories), one by the time of creation, the newest entry first
\* (tmpfs).
ListDir(dir, order) ==
    IF order = "by_name" THEN SortByName(dir)
    ELSE [i \in 1..Len(dir) |-> dir[Len(dir) - i + 1]]

\* get_files(path, *ext_list): the files of the top directory only (the
\* for-else returns after the first directory os.walk yields) whose
\* extension, lower-cased, is one of ext_list
get_files(dir, order, ext_list) ==
    SelectSeq(ListDir(dir, order),
              LAMBDA f : ~f.sub /\ Lower(Extension(f.name)) \in ext_list)

ConfigJson == <<"c", "o", "n", "f", "i", "g", ".", "j", "s", "o", "n">>

\* get_filename_list(path): the lower-cased names of all files, those of
\* sub-directories included; config.json is one of them
get_filename_list(dir) ==
    {Lower(dir[i].name) : i \in 1..Len(dir)} \cup {ConfigJson}

(***************************************************************************)
(* PNG -> BMP / BMPA.                                                      *)
(***************************************************************************)
ExtBMPA == <<".", "B", "M", "P", "A">>
ExtBmp == <<".", "b", "m", "p">>
ExtRGB == <<".", "R", "G", "B">>
ExtCOMP == <<".", "C", "O", "M", "P">>

\* the stored rows of the BMP Pillow saves: bottom-up, pixels as B, G, R
\* (and A), each row padded with zeros to a multiple of 4 bytes
BmpRows(img) ==
    LET bpp == IF img.alpha THEN 4 ELSE 3
        stride == ((img.w * bpp + 3) \div 4) * 4
        Px(p) == IF img.alpha THEN <<p[3], p[2], p[1], p[4]>> ELSE <<p[3], p[2], p[1]>>
        Row(r) == Concat([x \in 1..img.w |-> Px(r[x])]) \o Zeros(stride - img.w * bpp)
    IN  [y \in 1..img.h |-> Row(img.pix[img.h - y + 1])]

\* process_convert_png_2_bmp(file_path, tmp_path): the file it creates
process_convert_png_2_bmp(f) ==
    [name  |-> f.name \o (IF f.img.alpha THEN ExtBMPA ELSE ExtBmp),
     sub   |-> FALSE,
     bytes |-> <<>>,
     img   |-> NoImg,
     bmp   |-> [valid |-> TRUE, w |-> f.img.w, h |-> f.img.h,
                bpp |-> IF f.img.alpha THEN 4 ELSE 3,
                top_down |-> FALSE, rows |-> BmpRows(f.img)]]

\* convert_png_2_bmpa(src_path, tmp_path): the files it creates, in order; a
\* PNG that Image.open cannot read is logged and skipped
convert_png_2_bmpa(src, order) ==
    LET pngs == SelectSeq(get_files(src, order, {<<"p", "n", "g">>}), LAMBDA f : f.img.ok)
    IN  [i \in 1..Len(pngs) |-> process_convert_png_2_bmp(pngs[i])]

(***************************************************************************)
(* BMP -> device RGB chunk.                                                *)
(***************************************************************************)
\* the target format of bmp_2_rgb, from the stem and the bytes per pixel:
\* <<rgb_format, img_type>>, or <<0, 0>> where it logs an error and returns
TargetFormat(stem, bpp) ==
    IF EndsWith(stem, <<"8", "8", "8", "8">>)
    THEN IF bpp # 4 THEN <<0, 0>> ELSE <<8888, 71>>
    ELSE IF EndsWith(stem, <<"1", "5", "5", "5">>) /\ bpp = 4 THEN <<1555, 74>>
    ELSE IF EndsWith(stem, <<"5", "6", "5">>) \/ bpp \in {2, 3} THEN <<565, 73>>
    ELSE IF bpp # 4 THEN <<0, 0>> ELSE <<8565, 72>>

\* pack_row(row_bytes) of bmp_2_rgb
pack_row(row_bytes, rgb_format, bpp, bmp_w) ==
    LET At(i) == IF i + 1 <= Len(row_bytes) THEN row_bytes[i + 1] ELSE 0
        V565(r, g, b) ==
            BitOr(BitOr(BitAnd(r, 248) * 256, BitAnd(g, 252) * 8), BitAnd(b, 248) \div 8)
        V1555(r, g, b, a) ==
            BitOr(BitOr(BitOr(BitAnd(r, 248) * 128, BitAnd(g, 248) * 4), BitAnd(b, 248) \div 8),
                  IF a = 255 THEN 32768 ELSE 0)
    IN  IF rgb_format = 565
        THEN IF bpp = 2 THEN Take(row_bytes, bmp_w * 2)
             ELSE Concat([x \in 1..bmp_w |->
                     PackU16LE(V565(At((x - 1) * 3 + 2), At((x - 1) * 3 + 1), At((x - 1) * 3)))])
        ELSE IF rgb_format = 1555
        THEN Concat([x \in 1..bmp_w |->
                PackU16LE(V1555(At((x - 1) * 4 + 2), At((x - 1) * 4 + 1), At((x - 1) * 4),
                                At((x - 1) * 4 + 3)))])
        ELSE IF rgb_format = 8888 THEN Take(row_bytes, bmp_w * 4)
        ELSE Concat([x \in 1..bmp_w |->
                PackU16LE(V565(At((x - 1) * 4 + 2), At((x - 1) * 4 + 1), At((x - 1) * 4)))
                \o <<At((x - 1) * 4 + 3)>>])

\* bmp_2_rgb(file_path): [ok, blob]; ok is FALSE where it returns without
\* writing the .RGB file
bmp_2_rgb(f) ==
    LET bmp  == f.bmp
        stem == SplitDot(f.name)[1]
        fmt  == TargetFormat(stem, bmp.bpp)
        rows == IF bmp.top_down THEN bmp.rows
                ELSE [y \in 1..bmp.h |-> bmp.rows[bmp.h - y + 1]]
        out_payload == Concat([y \in 1..bmp.h |-> pack_row(rows[y], fmt[1], bmp.bpp, bmp.w)])
    IN  IF ~bmp.valid \/ bmp.bpp \notin {2, 3, 4} \/ fmt[1] = 0
        THEN [ok |-> FALSE, blob |-> <<>>]
        ELSE [ok |-> TRUE,
              blob |-> ChunkHeader(fmt[2], Len(out_payload), bmp.w, bmp.h) \o out_payload]

\* the .RGB file a bmp_2_rgb worker creates
RgbFile(f) ==
    [name |-> f.name \o ExtRGB, sub |-> FALSE, bytes |-> bmp_2_rgb(f).blob,
     img |-> NoImg, bmp |-> NoBmp]

(***************************************************************************)
(* Device RGB chunk -> LZ4 chunk.                                          *)
(***************************************************************************)
\* lz4.block.compress(p, store_size=False) of an input shorter than 13 bytes:
\* LZ4 finds no match in it and emits one run of literals, a token byte
\* (length << 4) and the bytes
Lz4Block(p) == <<Len(p) * 16>> \o p

\* the .COMP blob compress_rgb writes for one .RGB blob of 16 bytes or more
\* whose compressed flag is 0
CompBlob(blob) ==
    LET header   == Take(blob, 16)
        payload  == Drop(blob, 16)
        declared == header[3] + header[4] * 256 + header[5] * 65536
        repair   == declared <= 0 \/ declared > Len(payload)
        payload_len == IF repair THEN Len(payload) ELSE declared
        h2 == IF repair
              THEN [header EXCEPT ![3] = BitAnd(payload_len, 255),
                                  ![4] = BitAnd(payload_len \div 256, 255),
                                  ![5] = BitAnd(payload_len \div 65536, 255)]
              ELSE header
    IN  [h2 EXCEPT ![2] = 1] \o Lz4Block(Take(payload, payload_len))

\* compress_rgb(tmp_path): the .COMP files it creates, in order
compress_rgb(tmp, order) ==
    LET rgb_files == SelectSeq(get_files(tmp, order, {<<"r", "g", "b">>}),
                               LAMBDA f : Len(f.bytes) >= 16 /\ f.bytes[2] # 1)
    IN  [i \in 1..Len(rgb_files) |->
            [name |-> SplitExtRoot(rgb_files[i].name) \o ExtCOMP, sub |-> FALSE,
             bytes |-> CompBlob(rgb_files[i].bytes), img |-> NoImg, bmp |-> NoBmp]]

(***************************************************************************)
(* config.json.  A layer is a record [has_name, drawType, dataType,        *)
(* interval, area_num, alignType, x, y, num, imgArr]; has_name says that   *)
(* the JSON object has a "name" key.  An element of imgArr is              *)
(* [t, v, a, b, s]: an integer v (t = "int"), a string s (t = "str"), or   *)
(* the list [a, b, s] (t = "list").                                        *)
(***************************************************************************)
\* the elements of one layer that check_clock counts as missing images
MissingImages(item, my_list) ==
    {idx \in 1..Len(item.imgArr) :
        LET img == item.imgArr[idx]
        IN  IF img.t = "list" THEN Lower(img.s) \notin my_list
            ELSE IF img.t = "int" THEN FALSE
            ELSE IF item.drawType = 55 /\ idx - 1 = 2 THEN FALSE
            ELSE Lower(img.s) \notin my_list}

RECURSIVE ErrCount(_, _)
\* err_count of check_clock after the layers of config
ErrCount(config, my_list) ==
    IF config = <<>> THEN 0
    ELSE (IF Len(Head(config).imgArr) # Head(config).num THEN 1 ELSE 0)
         + Cardinality(MissingImages(Head(config), my_list))
         + ErrCount(Tail(config), my_list)

\* check_clock(clock_path) of a directory with a readable config.json:
\* "True", "False", or "raise" where item['name'] of a layer without a
\* "name" key raises KeyError
check_clock(config, dir) ==
    IF \E i \in 1..Len(config) :
          Len(config[i].imgArr) # config[i].num /\ ~config[i].has_name
    THEN "raise"
    ELSE IF ErrCount(config, get_filename_list(dir)) # 0 THEN "False"
    ELSE "True"

(***************************************************************************)
(* gen_clock_res: the asset loop.                                          *)
(***************************************************************************)
Thumbnail == <<"t", "h", "u", "m", "b", "n", "a", "i", "l">>
ZPrefix == <<"z", "_">>

\* file_name of the asset loop: the first two dot-separated parts of the
\* base name
FileKey(name) == SplitDot(name)[1] \o <<".">> \o SplitDot(name)[2]

\* in_data of the asset loop: the bytes of the file, after a synthesized
\* header when the second part of the name is jpg or gif
InData(f) ==
    LET img_ext == Lower(SplitDot(f.name)[2])
        file_size == Len(f.bytes)
    IN  IF img_ext = <<"j", "p", "g">>
        THEN ChunkHeader(9, file_size, f.img.w, f.img.h) \o f.bytes
        ELSE IF img_ext = <<"g", "i", "f">>
        THEN ChunkHeader(3, file_size, f.img.w, f.img.h) \o f.bytes
        ELSE f.bytes

\* Image.open(file_path) raises in the asset loop
OpenFails(f) ==
    Lower(SplitDot(f.name)[2]) \in {<<"j", "p", "g">>, <<"g", "i", "f">>} /\ ~f.img.ok

\* img_objs[key] = [off, len]
Put(objs, key, off, len) ==
    [k \in DOMAIN objs \cup {key} |-> IF k = key THEN <<off, len>> ELSE objs[k]]

\* an asset loop that looks at the z_ prefix before the thumbnail rule
Placement_ZFirst(file_name, override) ==
    IF StartsWith(file_name, ZPrefix) THEN "z"
    ELSE IF override = "none" /\ Contains(file_name, Thumbnail) THEN "thumbnail"
    ELSE "main"

\* the branch of the asset loop that takes file_name: the thumbnail slot,
\* the Z-region or the main region
Placement(file_name, override) ==
    IF override = "none" /\ Contains(file_name, Thumbnail) THEN "thumbnail"
    ELSE IF StartsWith(file_name, ZPrefix) THEN "z"
    ELSE "main"

\* one pass of the asset loop over file f; acc holds the thumbnail slot, the
\* two regions with their lengths, and the image table
AssetStep(acc, f, override) ==
    LET file_name == FileKey(f.name)
        in_data   == InData(f)
        file_size == Len(in_data)
    IN  IF Placement(file_name, override) = "thumbnail"
        THEN [acc EXCEPT !.thumb_data = in_data, !.thumb_length = file_size]
        ELSE IF Placement(file_name, override) = "z"
        THEN [acc EXCEPT !.z_data = acc.z_data \o in_data,
                         !.objs = Put(acc.objs, file_name, acc.z_length, file_size),
                         !.z_length = acc.z_length + file_size]
        ELSE [acc EXCEPT !.img_data = acc.img_data \o in_data,
                         !.objs = Put(acc.objs, file_name, acc.img_length, file_size),
                         !.img_length = acc.img_length + file_size]

(***************************************************************************)
(* gen_clock_res: the layer serializer.                                    *)
(***************************************************************************)
\* a text field that is padded to 30 bytes but never cut
Pack30s_Uncut(text) ==
    [i \in 1..Len(text) |-> Code(text[i])] \o Zeros(Max({0, 30 - Len(text)}))

\* struct.pack('30s', text.encode())
Pack30s(text) ==
    LET b == [i \in 1..Len(text) |-> Code(text[i])]
    IN  IF Len(b) >= 30 THEN SubSeq(b, 1, 30) ELSE b \o Zeros(30 - Len(b))

\* a serializer that writes the local offset of every name, z_ or not
RefOffset_Local(name, objs, z_start) ==
    objs[name][1]

\* the offset the serializer writes for a name of the image table
RefOffset(name, objs, z_start) ==
    IF StartsWith(name, ZPrefix) THEN z_start + objs[name][1] ELSE objs[name][1]

\* what the serializer appends for element img at (0-based) index idx of
\* layer: [ok, bytes]; ok is FALSE where the statement raises (KeyError for
\* a name without table entry, struct.error / AttributeError / TypeError
\* for an element of the wrong type)
SerializeElem(layer, idx, img, objs, z_start) ==
    LET Fail == [ok |-> FALSE, bytes |-> <<>>]
        Ref(name) ==
            IF name \notin DOMAIN objs THEN Fail
            ELSE [ok |-> TRUE,
                  bytes |-> PackI32(RefOffset(name, objs, z_start))
                            \o PackI32(objs[name][2])]
        AsInt == IF img.t = "int" THEN [ok |-> TRUE, bytes |-> PackI32(img.v)] ELSE Fail
    IN  IF layer.drawType \in {10, 15, 21}
        THEN IF img.t # "list" \/ ~Ref(img.s).ok THEN Fail
             ELSE [ok |-> TRUE, bytes |-> PackI32(img.a) \o PackI32(img.b) \o Ref(img.s).bytes]
        ELSE IF layer.drawType = 55 /\ idx = 2
        THEN IF img.t = "str" THEN [ok |-> TRUE, bytes |-> Pack30s(img.s)] ELSE Fail
        ELSE IF layer.dataType \in {64, 65, 66, 67} /\ idx \in {10, 11} THEN AsInt
        ELSE IF layer.drawType = 8 /\ idx \in {0, 1, 2} THEN AsInt
        ELSE IF img.t = "int" THEN AsInt
        ELSE IF img.t = "str" THEN Ref(img.s)
        ELSE Fail

\* what the serializer appends for one layer: [ok, bytes]
SerializeLayer(layer, objs, z_start) ==
    LET elems == [i \in 1..Len(layer.imgArr) |->
                    SerializeElem(layer, i - 1, layer.imgArr[i], objs, z_start)]
    IN  [ok |-> \A i \in 1..Len(elems) : elems[i].ok,
         bytes |-> PackI32(layer.drawType) \o PackI32(layer.dataType)
                   \o (IF layer.dataType \in {130, 59, 52} THEN PackI32(layer.interval) ELSE <<>>)
                   \o (IF layer.dataType \in {112}
                       THEN Concat([i \in 1..Len(layer.area_num) |-> PackI32(layer.area_num[i])])
                       ELSE <<>>)
                   \o PackI32(layer.alignType) \o PackI32(layer.x) \o PackI32(layer.y)
                   \o PackI32(layer.num)
                   \o Concat([i \in 1..Len(elems) |-> elems[i].bytes])]

(***************************************************************************)
(* gen_clock_res: the output file.                                         *)
(***************************************************************************)
\* g_clock_id_prefix_dict
g_clock_id_prefix_dict(size) ==
    CASE size = "454_454" -> 983040
      [] size = "400_400" -> 917504
      [] size = "466_466" -> 851968
      [] size = "390_390" -> 786432
      [] size = "410_502" -> 720896
      [] size = "320_384" -> 655360
      [] size = "320_385" -> 655360
      [] size = "368_448" -> 589824
      [] size = "390_450" -> 524288
      [] size = "360_360" -> 458752

\* crc_str.encode(): 'II@*24dG' when idle, else 'Sb@*O2GG'
Magic(is_idle) ==
    IF is_idle THEN <<73, 73, 64, 42, 50, 52, 100, 71>>
    ELSE <<83, 98, 64, 42, 79, 50, 71, 71>>

\* a writer that leaves the Z-region out of layer_block_start
OutBlob_NoZLength(is_idle, clock_id, acc, layer_data) ==
    LET start_addr == 32 + acc.thumb_length
    IN  Magic(is_idle) \o PackU32(clock_id)
        \o PackU32(32) \o PackU32(acc.thumb_length)
        \o PackU32(start_addr) \o PackU32(acc.img_length)
        \o PackU32(start_addr + acc.img_length)
        \o acc.thumb_data \o acc.img_data \o acc.z_data \o layer_data

\* the bytes written to Clock<id>_res
OutBlob(is_idle, clock_id, acc, layer_data) ==
    LET clock_thumb_start_addr == 32
        start_addr == clock_thumb_start_addr + acc.thumb_length
    IN  Magic(is_idle) \o PackU32(clock_id)
        \o PackU32(clock_thumb_start_addr) \o PackU32(acc.thumb_length)
        \o PackU32(start_addr) \o PackU32(acc.img_length)
        \o PackU32(start_addr + acc.img_length + acc.z_length)
        \o acc.thumb_data \o acc.img_data \o acc.z_data \o layer_data

(***************************************************************************)
(* gen_clock_res as a function of the temporary directory the pool leaves. *)
(***************************************************************************)
\* the rest of image_pre_build after convert_bmp_2_rgb: the temporary
\* directory with the .COMP files added, and file_list
ListFiles(src, tmp, order, compress) ==
    LET tmp2 == IF compress THEN tmp \o compress_rgb(tmp, order) ELSE tmp
    IN  [tmp |-> tmp2,
         file_list |-> get_files(src, order, {<<"j", "p", "g">>, <<"g", "i", "f">>})
                       \o get_files(tmp2, order,
                                    IF compress THEN {<<"c", "o", "m", "p">>}
                                    ELSE {<<"r", "g", "b">>})]

\* the bytes of the file --thumbnail names
OverrideBytes == <<137, 80, 78, 71, 1>>

\* the accumulators of gen_clock_res before the asset loop
InitAcc(override) ==
    [thumb_data   |-> IF override = "ok" THEN OverrideBytes ELSE <<>>,
     thumb_length |-> IF override = "ok" THEN Len(OverrideBytes) ELSE 0,
     img_data |-> <<>>, img_length |-> 0,
     z_data |-> <<>>, z_length |-> 0,
     objs |-> <<>>]

RECURSIVE AssetLoop(_, _, _)
\* the asset loop over files: [ok, acc]; ok is FALSE where an exception makes
\* gen_clock_res return False
AssetLoop(acc, files, override) ==
    IF files = <<>> THEN [ok |-> TRUE, acc |-> acc]
    ELSE IF OpenFails(Head(files)) THEN [ok |-> FALSE, acc |-> acc]
    ELSE AssetLoop(AssetStep(acc, Head(files), override), Tail(files), override)

RECURSIVE SerializeLayers(_, _, _)
\* the serializer loop over layers: [ok, bytes]
SerializeLayers(layers, objs, z_start) ==
    IF layers = <<>> THEN [ok |-> TRUE, bytes |-> <<>>]
    ELSE LET one  == SerializeLayer(Head(layers), objs, z_start)
             rest == SerializeLayers(Tail(layers), objs, z_start)
         IN  [ok |-> one.ok /\ rest.ok, bytes |-> one.bytes \o rest.bytes]

\* gen_clock_res from the end of convert_bmp_2_rgb on: [result, out]
PackFrom(src, tmp, config, compress, override, order, is_idle, size, id_base) ==
    LET files  == ListFiles(src, tmp, order, compress).file_list
        assets == AssetLoop(InitAcc(override), files, override)
        acc    == assets.acc
        ser    == SerializeLayers(config, acc.objs, 32 + acc.thumb_length + acc.img_length)
    IN  IF override = "missing" \/ ~assets.ok THEN [result |-> "False", out |-> <<>>]
        ELSE IF ~ser.ok THEN [result |-> "raise", out |-> <<>>]
        ELSE [result |-> "ok",
              out |-> OutBlob(is_idle, BitOr(id_base, g_clock_id_prefix_dict(size)),
                              acc, ser.bytes)]

\* the temporary directory when the .RGB files are created one after the
\* other, in the order the BMPs are listed
SequentialTmp(src, order) ==
    LET tmp1 == convert_png_2_bmpa(src, order)
        bmps == SelectSeq(get_files(tmp1, order, {<<"b", "m", "p">>, <<"b", "m", "p", "a">>}),
                          LAMBDA f : bmp_2_rgb(f).ok)
    IN  tmp1 \o [i \in 1..Len(bmps) |-> RgbFile(bmps[i])]

(***************************************************************************)
(* The inputs of the model: source files and layers.                       *)
(***************************************************************************)
\* a JPG or GIF file
Jpg(name, bytes, w, h) ==
    [name |-> name, sub |-> FALSE, bytes |-> bytes,
     img |-> [ok |-> TRUE, alpha |-> FALSE, w |-> w, h |-> h, pix |-> <<>>], bmp |-> NoBmp]

Png(name, alpha, pix) ==
    [name |-> name, sub |-> FALSE, bytes |-> <<137, 80, 78, 71>>,
     img |-> [ok |-> TRUE, alpha |-> alpha, w |-> Len(pix[1]), h |-> Len(pix), pix |-> pix],
     bmp |-> NoBmp]

Other(name, bytes) ==
    [name |-> name, sub |-> FALSE, bytes |-> bytes, img |-> NoImg, bmp |-> NoBmp]

N_bg_jpg == <<"b", "g", ".", "j", "p", "g">>
N_BG_jpg == <<"B", "G", ".", "j", "p", "g">>
N_d_png == <<"d", ".", "p", "n", "g">>
N_z_n_png == <<"z", "_", "n", ".", "p", "n", "g">>
N_thumbnail_png == <<"t", "h", "u", "m", "b", "n", "a", "i", "l", ".", "p", "n", "g">>
N_z_thumbnail_png ==
    <<"z", "_", "t", "h", "u", "m", "b", "n", "a", "i", "l", ".", "p", "n", "g">>
N_a_b_jpg == <<"a", ".", "b", ".", "j", "p", "g">>
N_a_b_gif == <<"a", ".", "b", ".", "g", "i", "f">>
N_a_b == <<"a", ".", "b">>
N_e8888_png == <<"e", "8", "8", "8", "8", ".", "p", "n", "g">>
N_x_png == <<"x", ".", "p", "n", "g">>
N_m1555_png == <<"m", "1", "5", "5", "5", ".", "p", "n", "g">>
N_s_jpg == <<"s", ".", "j", "p", "g">>

\* the files a source directory is made of
FileUniverse ==
    << Jpg(N_bg_jpg, <<255, 216, 255, 224, 1>>, 360, 360),
       Png(N_d_png, TRUE, << <<(<<200, 100, 50, 255>>)>> >>),
       Png(N_z_n_png, FALSE, << <<(<<255, 0, 8, 255>>), (<<0, 255, 0, 255>>)>> >>),
       Png(N_thumbnail_png, TRUE, << <<(<<1, 2, 3, 128>>)>> >>),
       Png(N_z_thumbnail_png, FALSE, << <<(<<9, 9, 9, 255>>)>> >>),
       Jpg(N_a_b_jpg, <<255, 216, 255, 224, 2, 2>>, 360, 360),
       Jpg(N_a_b_gif, <<71, 73, 70, 56, 57, 97, 3>>, 16, 16),
       Other(N_a_b, <<0>>),
       Png(N_e8888_png, FALSE, << <<(<<7, 7, 7, 255>>)>> >>),
       [Png(N_x_png, FALSE, << <<(<<0, 0, 0, 255>>)>> >>) EXCEPT !.img = NoImg],
       Png(N_m1555_png, TRUE, << <<(<<16, 32, 64, 255>>), (<<255, 255, 255, 0>>)>> >>),
       [Jpg(N_s_jpg, <<255, 216, 255, 224, 3>>, 360, 360) EXCEPT !.sub = TRUE] >>

\* the source directories: up to MaxFiles files of the universe
SourceDirs ==
    {d \in UNION {[1..n -> 1..Len(FileUniverse)] : n \in 0..MaxFiles} :
        \A i \in 1..(Len(d) - 1) : d[i] < d[i + 1]}

DirOf(d) == [i \in 1..Len(d) |-> FileUniverse[d[i]]]

I(v) == [t |-> "int", v |-> v, a |-> 0, b |-> 0, s |-> <<>>]
F(name) == [t |-> "str", v |-> 0, a |-> 0, b |-> 0, s |-> name]
T(a, b, name) == [t |-> "list", v |-> 0, a |-> a, b |-> b, s |-> name]

Layer(drawType, dataType, num, imgArr) ==
    [has_name |-> TRUE, drawType |-> drawType, dataType |-> dataType,
     interval |-> 500, area_num |-> <<11, 12, 13, 14>>,
     alignType |-> 1, x |-> 20, y |-> -3, num |-> num, imgArr |-> imgArr]

Hello == <<"H", "E", "L", "L", "O">>
LongText == [i \in 1..31 |-> IF i = 31 THEN "Z" ELSE "a"]

\* the layers a config.json is made of
LayerUniverse ==
    { Layer(0, 0, 1, <<F(N_bg_jpg)>>),
      Layer(0, 0, 3, <<F(N_d_png), F(N_z_n_png), F(N_d_png)>>),
      Layer(10, 52, 2, <<T(1, 2, N_d_png), T(3, -4, N_z_n_png)>>),
      Layer(55, 0, 3, <<F(N_bg_jpg), I(10), F(Hello)>>),
      Layer(55, 112, 3, <<I(1), I(2), F(LongText)>>),
      Layer(0, 65, 12, <<F(N_d_png), I(1), I(2), I(3), I(4), I(5), I(6), I(7), I(8), I(9),
                         I(-10), I(11)>>),
      Layer(8, 130, 4, <<I(1), I(-2), I(70000), F(N_z_n_png)>>),
      Layer(8, 0, 1, <<F(N_bg_jpg)>>),
      Layer(0, 0, 1, <<F(N_BG_jpg)>>),
      Layer(0, 0, 2, <<F(N_bg_jpg)>>),
      [Layer(0, 0, 2, <<F(N_bg_jpg)>>) EXCEPT !.has_name = FALSE],
      Layer(0, 0, 2, <<F(N_a_b_jpg), I(5)>>),
      Layer(10, 0, 1, <<T(1, 2, N_a_b_jpg)>>) }

\* the descriptors over the layer universe: up to MaxLayers layers
Descriptors == UNION {[1..n -> LayerUniverse] : n \in 0..MaxLayers}

\* the descriptors that name files of directory dir by their names on disk:
\* none, one of them, or all of them
DescriptorsOf(dir) ==
    {<<>>} \cup {<<Layer(0, 0, 1, <<F(dir[i].name)>>)>> : i \in 1..Len(dir)}
           \cup {<<Layer(0, 0, Len(dir), [i \in 1..Len(dir) |-> F(dir[i].name)])>>}

\* the directory of the descriptor-driven runs
BaseDir == <<FileUniverse[1], FileUniverse[2], FileUniverse[3]>>

\* cpu_core_num
cpu_core_num == 2

(***************************************************************************)
(* cli_main: the clock id and the face size.                               *)
(***************************************************************************)
\* _extract_clock_id_from_src_folder: the first integer of the folder name
\* in [50000..65535], <<>> where there is none (ValueError)
extract_clock_id_from_src_folder(numbers) ==
    LET ok == SelectSeq(numbers, LAMBDA v : 50000 <= v /\ v <= 65535)
    IN  IF ok = <<>> THEN <<>> ELSE <<ok[1]>>

\* the `allowed` table of _detect_clock_size_from_first_layer
allowed(w, h) ==
    CASE w = 466 /\ h = 466 -> "466_466"
      [] w = 360 /\ h = 360 -> "360_360"
      [] w = 320 /\ h = 385 -> "320_385"
      [] w = 368 /\ h = 448 -> "368_448"
      [] w = 390 /\ h = 450 -> "390_450"
      [] OTHER -> "none"

\* _detect_clock_size_from_first_layer(src_dir): the face size of the first
\* image of the first layer, "raise" where the function raises (empty
\* config, empty imgArr, an integer first element, a name that is no file
\* of the top directory, a file Pillow cannot open, a size not allowed)
detect_clock_size_from_first_layer(config, dir) ==
    IF config = <<>> \/ config[1].imgArr = <<>> THEN "raise"
    ELSE LET img0  == config[1].imgArr[1]
             files == {i \in 1..Len(dir) : ~dir[i].sub /\ dir[i].name = img0.s}
         IN  IF img0.t = "int" \/ img0.s = <<>> \/ files = {} THEN "raise"
             ELSE LET im == dir[CHOOSE i \in files : TRUE].img
                  IN  IF ~im.ok \/ allowed(im.w, im.h) = "none" THEN "raise"
                      ELSE allowed(im.w, im.h)

(***************************************************************************)
(* The state.                                                              *)
(***************************************************************************)
VARIABLES
    entry,                    \* "cli" (cli_main) or "api" (gen_clock_res called)
    args,                     \* --clock-id and --face-size, each <<>> when absent
    folder_numbers,           \* the integers in the base name of the source folder
    src_dir,                  \* the source directory (clock_path)
    layer_list,               \* config.json, parsed
    is_compress,              \* not --no-lz4
    thumbnail_path_override,  \* "none", "ok" (a readable file), "missing"
    fs_order,                 \* how the file system lists a directory
    idle_magic,               \* --idle
    clock_size,               \* --face-size
    clock_id_base,            \* --clock-id
    checked,                  \* what check_clock returned: "none" before
    pc,                       \* where gen_clock_res stands
    result,                   \* "none", "ok", "False", "raise"
    tmp_dir,                  \* the temporary directory
    tasks,                    \* the BMPs handed to the pool, in order
    next_task,                \* the first task no worker has taken yet
    running,                  \* the tasks a worker is converting
    file_list,                \* what image_pre_build returns
    fi,                       \* the next file of the asset loop
    clock_thumb_data, clock_thumb_length,
    clock_img_data, clock_img_length,
    clock_z_img_data, clock_z_img_length,
    img_objs,                 \* the image table
    clock_layer_data,         \* the layer block
    li,                       \* the next layer of the serializer
    out_exists,               \* Clock<id>_res exists
    out_file                  \* its bytes

inputs ==
    <<entry, args, folder_numbers, src_dir, layer_list, is_compress, thumbnail_path_override, fs_order, idle_magic,
      clock_size, clock_id_base>>

pool == <<tasks, next_task, running>>

accs ==
    <<clock_thumb_data, clock_thumb_length, clock_img_data, clock_img_length,
      clock_z_img_data, clock_z_img_length, img_objs>>

vars ==
    <<inputs, checked, pc, result, tmp_dir, pool, file_list, fi, accs, clock_layer_data, li,
      out_exists, out_file>>

\* the accumulators as one record
Acc ==
    [thumb_data |-> clock_thumb_data, thumb_length |-> clock_thumb_length,
     img_data |-> clock_img_data, img_length |-> clock_img_length,
     z_data |-> clock_z_img_data, z_length |-> clock_z_img_length,
     objs |-> img_objs]

SetAcc(acc) ==
    /\ clock_thumb_data' = acc.thumb_data
    /\ clock_thumb_length' = acc.thumb_length
    /\ clock_img_data' = acc.img_data
    /\ clock_img_length' = acc.img_length
    /\ clock_z_img_data' = acc.z_data
    /\ clock_z_img_length' = acc.z_length
    /\ img_objs' = acc.objs

SetAccInit ==
    /\ clock_thumb_data = <<>>
    /\ clock_thumb_length = 0
    /\ clock_img_data = <<>>
    /\ clock_img_length = 0
    /\ clock_z_img_data = <<>>
    /\ clock_z_img_length = 0
    /\ img_objs = <<>>

\* gen_clock_res called with a clock id and a face size
ApiCall(id_base, size) ==
    /\ entry = "api"
    /\ args = [clock_id |-> <<>>, face_size |-> <<>>]
    /\ folder_numbers = <<>>
    /\ clock_id_base = id_base
    /\ clock_size = size
    /\ pc = "check_clock"

\* a watch face directory in every option, with a descriptor naming its files
InitDirs ==
    /\ \E d \in SourceDirs :
          /\ src_dir = DirOf(d)
          /\ layer_list \in DescriptorsOf(DirOf(d))
    /\ is_compress \in BOOLEAN
    /\ \/ thumbnail_path_override \in {"none", "ok", "missing"} /\ fs_order = "by_name"
       \/ thumbnail_path_override = "none" /\ fs_order = "newest_first"
    /\ idle_magic = FALSE
    /\ ApiCall(50001, "360_360")

\* every descriptor over one directory
InitDescriptors ==
    /\ src_dir = BaseDir
    /\ layer_list \in Descriptors
    /\ is_compress = TRUE
    /\ thumbnail_path_override \in {"none", "ok"}
    /\ fs_order = "by_name"
    /\ idle_magic \in BOOLEAN
    /\ ApiCall(50001, "466_466")

\* a JPG of 500 x 500 pixels
N_w_jpg == <<"w", ".", "j", "p", "g">>
WideJpg == Jpg(N_w_jpg, <<255, 216, 255, 224, 5>>, 500, 500)

\* the directories of the runs that vary the clock id and the face size:
\* the first image is 360 x 360, 500 x 500, or 1 x 1
EntryDirs ==
    {<<FileUniverse[1], FileUniverse[2]>>, <<WideJpg>>, <<FileUniverse[2]>>}

\* the clock ids and face sizes of a command line or of a call
InitEntries ==
    /\ src_dir \in EntryDirs
    /\ layer_list \in DescriptorsOf(src_dir)
    /\ is_compress = TRUE
    /\ thumbnail_path_override = "none"
    /\ fs_order = "by_name"
    /\ idle_magic \in BOOLEAN
    /\ \/ /\ entry = "cli"
          /\ args \in [clock_id : {<<>>, <<49999>>, <<50000>>, <<65535>>, <<65536>>},
                       face_size : {<<>>, <<"466_466">>, <<"360_360">>}]
          /\ folder_numbers \in {<<>>, <<7, 50123, 50124>>, <<70000>>}
          /\ clock_id_base = 0
          /\ clock_size = "none"
          /\ pc = "cli_main"
       \/ \E id_base \in {100, 50000, 65535, 70000}, size \in {"466_466", "360_360"} :
             ApiCall(id_base, size)

\* a BMP file among the sources: 24-bit, 2 x 1, stored bottom-up
N_p_bmp == <<"p", ".", "b", "m", "p">>
BmpSource ==
    [name |-> N_p_bmp, sub |-> FALSE, bytes |-> <<66, 77>>,
     img |-> [ok |-> TRUE, alpha |-> FALSE, w |-> 2, h |-> 1, pix |-> <<>>],
     bmp |-> [valid |-> TRUE, w |-> 2, h |-> 1, bpp |-> 3, top_down |-> FALSE,
              rows |-> << <<1, 2, 3, 4, 5, 6, 0, 0>> >>]]

\* watch faces with a BMP source
InitSources ==
    /\ src_dir \in {<<BmpSource>>, <<FileUniverse[1], BmpSource>>}
    /\ layer_list \in DescriptorsOf(src_dir)
    /\ is_compress \in BOOLEAN
    /\ thumbnail_path_override = "none"
    /\ fs_order = "by_name"
    /\ idle_magic = FALSE
    /\ ApiCall(50001, "360_360")

\* a PNG with alpha, 2 x 2, whose stem ends with 565
N_q565_png == <<"q", "5", "6", "5", ".", "p", "n", "g">>
Alpha565Png ==
    Png(N_q565_png, TRUE, << <<(<<255, 0, 0, 255>>), (<<0, 255, 0, 128>>)>>,
                             <<(<<0, 0, 255, 0>>), (<<200, 100, 50, 255>>)>> >>)

\* a JPG of 4096 x 4100 pixels
N_h_jpg == <<"h", ".", "j", "p", "g">>
HugeJpg == Jpg(N_h_jpg, <<255, 216, 255, 224, 6>>, 4096, 4100)

\* watch faces that try the pixel formats and the header fields
InitImages ==
    /\ src_dir \in {<<Alpha565Png>>, <<Alpha565Png, FileUniverse[3]>>, <<HugeJpg>>}
    /\ layer_list \in DescriptorsOf(src_dir)
    /\ is_compress \in BOOLEAN
    /\ thumbnail_path_override = "none"
    /\ fs_order = "by_name"
    /\ idle_magic = FALSE
    /\ ApiCall(50001, "360_360")

\* a .RGB blob: header with the compressed flag and the declared length,
\* then the payload
RgbChunk(flag, declared, payload) ==
    <<73, flag, declared % 256, (declared \div 256) % 256, declared \div 65536, 1, 16, 0>>
        \o Zeros(8) \o payload

N_a_RGB == <<"a", ".", "R", "G", "B">>
N_b_RGB == <<"b", ".", "R", "G", "B">>

\* the blobs tried: flag 0 or 1; declared length zero, right, short or too
\* large; and a blob shorter than a header
RgbBlobs ==
    {RgbChunk(flag, declared, <<7, 8, 9>>) : flag \in {0, 1}, declared \in {0, 2, 3, 70000}}
        \cup {<<73, 0, 3>>}

\* image_pre_build called on a temporary directory that holds .RGB files
InitPrepared ==
    /\ entry = "image_pre_build"
    /\ args = [clock_id |-> <<>>, face_size |-> <<>>]
    /\ folder_numbers = <<>>
    /\ src_dir \in {<<>>, <<FileUniverse[1]>>}
    /\ layer_list = <<>>
    /\ is_compress \in BOOLEAN
    /\ thumbnail_path_override = "none"
    /\ fs_order = "by_name"
    /\ idle_magic = FALSE
    /\ clock_size = "none"
    /\ clock_id_base = 0
    /\ pc = "convert_png"
    /\ \E a \in RgbBlobs :
          \/ tmp_dir = <<Other(N_a_RGB, a)>>
          \/ \E b \in RgbBlobs : tmp_dir = <<Other(N_a_RGB, a), Other(N_b_RGB, b)>>

Init ==
    /\ \/ /\ InitDirs \/ InitDescriptors \/ InitEntries \/ InitSources \/ InitImages
          /\ tmp_dir = <<>>
       \/ InitPrepared
    /\ checked = "none"
    /\ result = "none"
    /\ tasks = <<>>
    /\ next_task = 1
    /\ running = {}
    /\ file_list = <<>>
    /\ fi = 1
    /\ SetAccInit
    /\ clock_layer_data = <<>>
    /\ li = 1
    /\ out_exists = FALSE
    /\ out_file = <<>>

(***************************************************************************)
(* The steps of gen_clock_res.                                             *)
(***************************************************************************)
\* gen_clock_res returns or raises: the temporary directory is gone
Finish(r) ==
    /\ result' = r
    /\ pc' = "done"
    /\ tmp_dir' = <<>>

\* cli_main up to the call of gen_clock_res: the clock id from --clock-id or
\* from the folder name, its range check, the face size from --face-size or
\* from the first image of the first layer.  An exception ends the program.
CliMain ==
    /\ pc = "cli_main"
    /\ LET id   == IF args.clock_id # <<>> THEN args.clock_id
                   ELSE extract_clock_id_from_src_folder(folder_numbers)
           size == IF args.face_size # <<>> THEN args.face_size[1]
                   ELSE detect_clock_size_from_first_layer(layer_list, src_dir)
       IN  IF id = <<>> \/ ~(50000 <= id[1] /\ id[1] <= 65535)
           THEN Finish("raise") /\ UNCHANGED <<clock_id_base, clock_size>>
           ELSE IF size = "raise"
           THEN /\ clock_id_base' = id[1]
                /\ Finish("raise") /\ UNCHANGED clock_size
           ELSE /\ clock_id_base' = id[1]
                /\ clock_size' = size
                /\ pc' = "check_clock"
                /\ UNCHANGED <<result, tmp_dir>>
    /\ UNCHANGED <<entry, args, folder_numbers, src_dir, layer_list, is_compress,
                   thumbnail_path_override, fs_order, idle_magic, checked, pool, file_list,
                   fi, accs, clock_layer_data, li, out_exists, out_file>>

\* `if not check_clock(clock_path): return False`
CheckClock ==
    /\ pc = "check_clock"
    /\ LET r == check_clock(layer_list, src_dir)
       IN  /\ checked' = r
           /\ IF r = "True"
              THEN pc' = "convert_png" /\ UNCHANGED <<result, tmp_dir>>
              ELSE Finish(r)
    /\ UNCHANGED <<inputs, pool, file_list, fi, accs, clock_layer_data, li, out_exists, out_file>>

\* image_pre_build: convert_png_2_bmpa(src_path, tmp_path)
ConvertPng ==
    /\ pc = "convert_png"
    /\ tmp_dir' = tmp_dir \o convert_png_2_bmpa(src_dir, fs_order)
    /\ pc' = "pool"
    /\ UNCHANGED <<inputs, checked, result, pool, file_list, fi, accs, clock_layer_data, li,
                   out_exists, out_file>>

\* convert_bmp_2_rgb: the BMPs are listed and handed to the pool
PoolSubmit ==
    /\ pc = "pool"
    /\ tasks' = get_files(tmp_dir, fs_order, {<<"b", "m", "p">>, <<"b", "m", "p", "a">>})
    /\ next_task' = 1
    /\ running' = {}
    /\ pc' = IF Len(tasks') > 0 THEN "workers" ELSE "list_files"
    /\ UNCHANGED <<inputs, checked, result, tmp_dir, file_list, fi, accs, clock_layer_data, li,
                   out_exists, out_file>>

\* a free process of the pool takes the next task
WorkerStart ==
    /\ pc = "workers"
    /\ next_task <= Len(tasks)
    /\ Cardinality(running) < cpu_core_num
    /\ running' = running \cup {next_task}
    /\ next_task' = next_task + 1
    /\ UNCHANGED <<inputs, checked, pc, result, tmp_dir, tasks, file_list, fi, accs, clock_layer_data,
                   li, out_exists, out_file>>

\* the process converting task i ends bmp_2_rgb: it has created the .RGB
\* file, or has logged an error and returned
WorkerFinish(i) ==
    /\ pc = "workers"
    /\ i \in running
    /\ tmp_dir' = IF bmp_2_rgb(tasks[i]).ok THEN Append(tmp_dir, RgbFile(tasks[i])) ELSE tmp_dir
    /\ running' = running \ {i}
    /\ UNCHANGED <<inputs, checked, pc, result, tasks, next_task, file_list, fi, accs, clock_layer_data,
                   li, out_exists, out_file>>

\* process_pool.close(); process_pool.join()
PoolJoin ==
    /\ pc = "workers"
    /\ next_task > Len(tasks)
    /\ running = {}
    /\ pc' = "list_files"
    /\ UNCHANGED <<inputs, checked, result, tmp_dir, pool, file_list, fi, accs, clock_layer_data, li,
                   out_exists, out_file>>

\* the rest of image_pre_build: compress_rgb and the file list
ImagePreBuild ==
    /\ pc = "list_files"
    /\ LET r == ListFiles(src_dir, tmp_dir, fs_order, is_compress)
       IN  tmp_dir' = r.tmp /\ file_list' = r.file_list
    /\ IF entry = "image_pre_build"
       THEN pc' = "done" /\ result' = "file_list"
       ELSE pc' = "open_thumbnail" /\ UNCHANGED result
    /\ UNCHANGED <<inputs, checked, pool, fi, accs, clock_layer_data, li, out_exists, out_file>>

\* the start of the try block: the accumulators, and the thumbnail override
OpenThumbnail ==
    /\ pc = "open_thumbnail"
    /\ IF thumbnail_path_override = "missing"
       THEN Finish("False") /\ UNCHANGED <<fi, accs>>
       ELSE /\ SetAcc(InitAcc(thumbnail_path_override))
            /\ fi' = 1
            /\ pc' = "assets"
            /\ UNCHANGED <<result, tmp_dir>>
    /\ UNCHANGED <<inputs, checked, pool, file_list, clock_layer_data, li, out_exists, out_file>>

\* one pass of `for file_path in file_list`
AssetLoopStep ==
    /\ pc = "assets"
    /\ fi <= Len(file_list)
    /\ IF OpenFails(file_list[fi])
       THEN Finish("False") /\ UNCHANGED <<fi, accs>>
       ELSE /\ SetAcc(AssetStep(Acc, file_list[fi], thumbnail_path_override))
            /\ fi' = fi + 1
            /\ UNCHANGED <<pc, result, tmp_dir>>
    /\ UNCHANGED <<inputs, checked, pool, file_list, clock_layer_data, li, out_exists, out_file>>

\* the loop is over: the with block ends and config.json is read again
ReadConfig ==
    /\ pc = "assets"
    /\ fi > Len(file_list)
    /\ tmp_dir' = <<>>
    /\ clock_layer_data' = <<>>
    /\ li' = 1
    /\ pc' = "layers"
    /\ UNCHANGED <<inputs, checked, result, pool, file_list, fi, accs, out_exists, out_file>>

\* one pass of `for layer in layer_list`
SerializeStep ==
    /\ pc = "layers"
    /\ li <= Len(layer_list)
    /\ LET clock_z_img_start == 32 + clock_thumb_length + clock_img_length
           r == SerializeLayer(layer_list[li], img_objs, clock_z_img_start)
       IN  IF r.ok
           THEN /\ clock_layer_data' = clock_layer_data \o r.bytes
                /\ li' = li + 1
                /\ UNCHANGED <<pc, result, tmp_dir>>
           ELSE Finish("raise") /\ UNCHANGED <<clock_layer_data, li>>
    /\ UNCHANGED <<inputs, checked, pool, file_list, fi, accs, out_exists, out_file>>

\* the file is written and gen_clock_res returns its tuple
WriteFile ==
    /\ pc = "layers"
    /\ li > Len(layer_list)
    /\ out_file' = OutBlob(idle_magic, BitOr(clock_id_base, g_clock_id_prefix_dict(clock_size)),
                           Acc, clock_layer_data)
    /\ out_exists' = TRUE
    /\ Finish("ok")
    /\ UNCHANGED <<inputs, checked, pool, file_list, fi, accs, clock_layer_data, li>>

Next ==
    \/ CliMain
    \/ CheckClock
    \/ ConvertPng
    \/ PoolSubmit
    \/ WorkerStart
    \/ \E i \in 1..MaxFiles : WorkerFinish(i)
    \/ PoolJoin
    \/ ImagePreBuild
    \/ OpenThumbnail
    \/ AssetLoopStep
    \/ ReadConfig
    \/ SerializeStep
    \/ WriteFile

Spec == Init /\ [][Next]_vars

(***************************************************************************)
(* Reading a written file back: the header fields, and the places of the   *)
(* image references in the layer block, from the record layout of the      *)
(* format (drawType, dataType, [interval], [area_num], alignType, x, y,    *)
(* num, then the elements).                                                *)
(***************************************************************************)
\* the big-endian u32 at byte offset pos of bytes
U32At(bytes, pos) ==
    bytes[pos + 1] * 16777216 + bytes[pos + 2] * 65536 + bytes[pos + 3] * 256 + bytes[pos + 4]

ThumbStartOf(file) == U32At(file, 12)
ThumbLengthOf(file) == U32At(file, 16)
MainStartOf(file) == U32At(file, 20)
MainLengthOf(file) == U32At(file, 24)
LayerBlockStartOf(file) == U32At(file, 28)

\* the element at (0-based) index idx of layer is written as an image
\* reference (possibly after two integers)
IsImageRef(layer, idx, e) ==
    \/ layer.drawType \in {10, 15, 21}
    \/ /\ e.t = "str"
       /\ ~(layer.drawType = 55 /\ idx = 2)
       /\ ~(layer.dataType \in {64, 65, 66, 67} /\ idx \in {10, 11})
       /\ ~(layer.drawType = 8 /\ idx \in {0, 1, 2})

\* the number of bytes of the encoding of one element
ElemSize(layer, idx, e) ==
    IF layer.drawType \in {10, 15, 21} THEN 16
    ELSE IF layer.drawType = 55 /\ idx = 2 THEN 30
    ELSE IF IsImageRef(layer, idx, e) THEN 8
    ELSE 4

\* the number of bytes before the elements of a layer record
PrefixSize(layer) ==
    8 + (IF layer.dataType \in {52, 59, 130} THEN 4 ELSE 0)
      + (IF layer.dataType = 112 THEN 4 * Len(layer.area_num) ELSE 0) + 16

RECURSIVE ElemsSize(_, _)
\* the number of bytes of the first n elements of a layer record
ElemsSize(layer, n) ==
    IF n = 0 THEN 0
    ELSE ElemsSize(layer, n - 1) + ElemSize(layer, n - 1, layer.imgArr[n])

RECURSIVE RecordsSize(_, _)
\* the number of bytes of the first n layer records
RecordsSize(layers, n) ==
    IF n = 0 THEN 0
    ELSE RecordsSize(layers, n - 1) + PrefixSize(layers[n])
         + ElemsSize(layers[n], Len(layers[n].imgArr))

\* the image references of the first n layer records: the name, and the
\* offset in the layer block of the (offset, length) pair
ImageRefs(layers, n) ==
    {[name |-> layers[l].imgArr[k].s,
      pos  |-> RecordsSize(layers, l - 1) + PrefixSize(layers[l]) + ElemsSize(layers[l], k - 1)
               + (IF layers[l].drawType \in {10, 15, 21} THEN 8 ELSE 0)] :
        <<l, k>> \in {p \in (1..n) \X (1..12) :
                        /\ p[2] <= Len(layers[p[1]].imgArr)
                        /\ IsImageRef(layers[p[1]], p[2] - 1, layers[p[1]].imgArr[p[2]])}}

ImgTypes == {3, 9, 71, 72, 73, 74}

(***************************************************************************)
(* C1.  After a pack that writes the output file, every image reference    *)
(* (offset, length) of the layer block addresses bytes that lie inside the *)
(* referenced region (the main region, offsets counted from main_start,    *)
(* for other names; the Z-region, offsets as written, for z_ names) and    *)
(* that begin with a 16-byte chunk header whose byte 0 is an img_type.     *)
(***************************************************************************)
C1_OffsetIntegrity ==
    (pc = "done" /\ result = "ok") =>
        \A r \in ImageRefs(layer_list, Len(layer_list)) :
            LET lbs    == LayerBlockStartOf(out_file)
                off    == U32At(out_file, lbs + r.pos)
                length == U32At(out_file, lbs + r.pos + 4)
                z_start == MainStartOf(out_file) + MainLengthOf(out_file)
                first  == IF StartsWith(r.name, ZPrefix) THEN off
                          ELSE MainStartOf(out_file) + off
            IN  /\ IF StartsWith(r.name, ZPrefix)
                   THEN off >= z_start /\ off + length <= lbs
                   ELSE off + length <= MainLengthOf(out_file)
                /\ length >= 16
                /\ out_file[first + 1] \in ImgTypes

(***************************************************************************)
(* Where the asset loop put each file, told from file_list alone: the      *)
(* chunk of a name is the last file of that name outside the thumbnail     *)
(* slot, and its local offset is the length of the chunks put into the     *)
(* same region before it.                                                  *)
(***************************************************************************)
\* the region file k of file_list went to
RegionOfFile(k) ==
    Placement(FileKey(file_list[k].name), thumbnail_path_override)

\* the index in file_list of the chunk the table holds for name
ChunkIndex(name) ==
    Max({0} \cup {k \in 1..Len(file_list) :
                    FileKey(file_list[k].name) = name /\ RegionOfFile(k) # "thumbnail"})

RECURSIVE LengthBefore(_, _)
\* the length of the chunks of region among the first n files
LengthBefore(region, n) ==
    IF n = 0 THEN 0
    ELSE LengthBefore(region, n - 1)
         + (IF RegionOfFile(n) = region THEN Len(InData(file_list[n])) ELSE 0)

\* the local offset of the chunk of name inside its region
LocalOffset(name) ==
    LengthBefore(RegionOfFile(ChunkIndex(name)), ChunkIndex(name) - 1)

(***************************************************************************)
(* C2.  Every image reference the serializer has written, by a plain       *)
(* filename element or by the filename of a 3-tuple element, holds: for a  *)
(* name starting with z_ the offset 32 + thumb_length + main_length + the  *)
(* chunk's local offset in the Z-region, for any other name the chunk's    *)
(* local offset in the main region unchanged; and, as second i32, the      *)
(* chunk's length in bytes.                                                *)
(***************************************************************************)
C2_ZOffsetFixup ==
    \A r \in ImageRefs(layer_list, li - 1) :
        LET off    == U32At(clock_layer_data, r.pos)
            length == U32At(clock_layer_data, r.pos + 4)
            k      == ChunkIndex(r.name)
        IN  /\ k > 0
            /\ off = IF StartsWith(r.name, ZPrefix)
                     THEN 32 + clock_thumb_length + clock_img_length + LocalOffset(r.name)
                     ELSE LocalOffset(r.name)
            /\ length = Len(InData(file_list[k]))
            /\ (StartsWith(r.name, ZPrefix) <=> RegionOfFile(k) = "z")

\* a finished pack with a thumbnail and a main region before the Z-region,
\* whose layers name a z_ file and another file both in 3-tuples and plainly
C2_Witness ==
    /\ pc = "done" /\ result = "ok"
    /\ clock_thumb_length > 0 /\ clock_img_length > 0 /\ clock_z_img_length > 0
    /\ Len(layer_list) = 2
    /\ layer_list[1].drawType = 10 /\ layer_list[2].drawType = 0
    /\ \A l \in 1..2 : \E i, j \in 1..Len(layer_list[l].imgArr) :
          /\ StartsWith(layer_list[l].imgArr[i].s, ZPrefix)
          /\ layer_list[l].imgArr[j].s = N_d_png
    /\ LocalOffset(N_d_png) > 0


(***************************************************************************)
(* C3.  In every written file, bytes 12..31 hold the big-endian u32 values *)
(* thumb_start = 32, thumb_length, main_start = 32 + thumb_length,         *)
(* main_length and layer_block_start = main_start + main_length +          *)
(* z_length; the thumbnail bytes, the main region, the Z-region and the    *)
(* layer block follow from offset 32 in that order without gap or overlap, *)
(* and the file ends with the layer block.                                 *)
(***************************************************************************)
C3_HeaderAndLayout ==
    out_exists =>
        LET tl  == Len(clock_thumb_data)
            ml  == Len(clock_img_data)
            zl  == Len(clock_z_img_data)
            lbs == 32 + tl + ml + zl
        IN  /\ ThumbStartOf(out_file) = 32
            /\ ThumbLengthOf(out_file) = tl
            /\ MainStartOf(out_file) = 32 + tl
            /\ MainLengthOf(out_file) = ml
            /\ LayerBlockStartOf(out_file) = lbs
            /\ Len(out_file) = lbs + Len(clock_layer_data)
            /\ SubSeq(out_file, 33, 32 + tl) = clock_thumb_data
            /\ SubSeq(out_file, 33 + tl, 32 + tl + ml) = clock_img_data
            /\ SubSeq(out_file, 33 + tl + ml, lbs) = clock_z_img_data
            /\ SubSeq(out_file, lbs + 1, Len(out_file)) = clock_layer_data

\* a written file in which none of the four parts is empty
C3_Witness ==
    /\ out_exists
    /\ clock_thumb_data # <<>> /\ clock_img_data # <<>> /\ clock_z_img_data # <<>>
    /\ clock_layer_data # <<>>


(***************************************************************************)
(* The image table read as an index of the regions.                        *)
(***************************************************************************)
\* the names of the table whose chunks are in region ("z" or "main")
TableNames(region) ==
    {n \in DOMAIN img_objs : StartsWith(n, ZPrefix) <=> region = "z"}

\* the byte range [offset, offset + length) of a table entry
RangeOf(n) ==
    img_objs[n][1]..(img_objs[n][1] + img_objs[n][2] - 1)

RECURSIVE SumOfLengths(_)
\* the sum of the chunk sizes of a set of table names
SumOfLengths(S) ==
    IF S = {} THEN 0
    ELSE LET n == CHOOSE x \in S : TRUE
         IN  img_objs[n][2] + SumOfLengths(S \ {n})

\* the asset loop has run over all of file_list
AfterAssetLoop ==
    pc = "layers" \/ (pc = "done" /\ checked = "True" /\ result \in {"ok", "raise"})

(***************************************************************************)
(* C4.  After the asset loop the image table is an exact index of the two  *)
(* regions: main_length + z_length is the sum of the chunk sizes of the    *)
(* distinct names of the table, the byte ranges of the entries of one      *)
(* region are pairwise disjoint and cover the region exactly, and a name   *)
(* referenced several times is written with the same (offset, length) at   *)
(* every reference.                                                        *)
(***************************************************************************)
C4_TableIsExactIndex ==
    AfterAssetLoop =>
        /\ clock_img_length + clock_z_img_length = SumOfLengths(DOMAIN img_objs)
        /\ \A region \in {"main", "z"} :
              LET region_length == IF region = "z" THEN Len(clock_z_img_data)
                                   ELSE Len(clock_img_data)
              IN  /\ \A m, n \in TableNames(region) :
                        m # n => RangeOf(m) \cap RangeOf(n) = {}
                  /\ UNION {RangeOf(n) : n \in TableNames(region)} = 0..(region_length - 1)
        /\ \A r1, r2 \in ImageRefs(layer_list, li - 1) :
              r1.name = r2.name =>
                  /\ U32At(clock_layer_data, r1.pos) = U32At(clock_layer_data, r2.pos)
                  /\ U32At(clock_layer_data, r1.pos + 4) = U32At(clock_layer_data, r2.pos + 4)


(***************************************************************************)
(* The regions as a placement rule makes them: each prepared file of       *)
(* file_list goes, with the whole of its chunk, where the rule sends its   *)
(* name; a region is its chunks in file_list order, and the thumbnail slot *)
(* holds the last file sent there.                                         *)
(***************************************************************************)
\* the name of the chunk of file k of file_list
ChunkName(k) == FileKey(file_list[k].name)

\* file k is taken as the thumbnail by its name
NamedThumbnail(k) ==
    thumbnail_path_override = "none" /\ Contains(ChunkName(k), Thumbnail)

\* the rule of the specification: z_ names to the Z-region, the file taken
\* as thumbnail to the thumbnail slot, every other file to the main region
PlaceByPrefix(k) ==
    IF StartsWith(ChunkName(k), ZPrefix) THEN "z"
    ELSE IF NamedThumbnail(k) THEN "thumbnail"
    ELSE "main"

\* the same rule with the thumbnail rule first: a file taken as thumbnail
\* goes to the thumbnail slot whatever its prefix
PlaceThumbnailFirst(k) ==
    IF NamedThumbnail(k) THEN "thumbnail"
    ELSE IF StartsWith(ChunkName(k), ZPrefix) THEN "z"
    ELSE "main"

\* the files a rule sends to region, in file_list order
FilesOf(region, Place(_)) ==
    SelectSeq([k \in 1..Len(file_list) |-> k], LAMBDA k : Place(k) = region)

\* the bytes of region under a rule
RegionBytes(region, Place(_)) ==
    LET ks == FilesOf(region, Place)
    IN  Concat([i \in 1..Len(ks) |-> InData(file_list[ks[i]])])

\* the bytes of the thumbnail slot under a rule
SlotBytes(Place(_)) ==
    LET ks == FilesOf("thumbnail", Place)
    IN  IF ks # <<>> THEN InData(file_list[ks[Len(ks)]])
        ELSE IF thumbnail_path_override = "ok" THEN OverrideBytes
        ELSE <<>>

\* the regions and the thumbnail slot are what a rule makes them
PartitionedBy(Place(_)) ==
    /\ clock_z_img_data = RegionBytes("z", Place)
    /\ clock_img_data = RegionBytes("main", Place)
    /\ clock_thumb_data = SlotBytes(Place)

(***************************************************************************)
(* C5 as stated.  After the asset loop no chunk is in both regions: every  *)
(* prepared file whose name starts with z_ is in the Z-region, every other *)
(* file is in the main region, except the file taken as thumbnail by its   *)
(* name (no override), which is in the thumbnail slot and not in the main  *)
(* region.                                                                 *)
(***************************************************************************)
C5_RegionPartition_AsStated ==
    AfterAssetLoop => PartitionedBy(PlaceByPrefix)

(***************************************************************************)
(* C5 amended.  After the asset loop no chunk is in both regions: a file   *)
(* taken as thumbnail by its name (no override) is in neither region,      *)
(* whatever its prefix, and the last such file fills the thumbnail slot;   *)
(* every other prepared file is in the Z-region if its name starts with    *)
(* z_ and in the main region if not.                                       *)
(***************************************************************************)
C5_RegionPartition ==
    AfterAssetLoop => PartitionedBy(PlaceThumbnailFirst)

\* a finished pack whose thumbnail slot holds a file named z_...thumbnail,
\* next to a Z-region that is not empty
C5_Witness ==
    /\ pc = "done" /\ result = "ok"
    /\ clock_z_img_data # <<>>
    /\ \E k \in 1..Len(file_list) :
          /\ NamedThumbnail(k)
          /\ StartsWith(ChunkName(k), ZPrefix)
          /\ clock_thumb_data = InData(file_list[k])


(***************************************************************************)
(* The reference encoding of a layer record: the field sequence and the    *)
(* element table of the format, read top to bottom, with the offset and    *)
(* the length of a name taken from where its chunk lies in its region.     *)
(***************************************************************************)
\* a big-endian two's complement i32
BE32(v) ==
    <<(v \div 16777216) % 256, (v \div 65536) % 256, (v \div 256) % 256, v % 256>>

\* exactly 30 bytes of a text: cut after 30, else padded with zero bytes
Text30(text) ==
    [i \in 1..30 |-> IF i <= Len(text) THEN Code(text[i]) ELSE 0]

\* the two i32 of an image reference to name
RefImage(name) ==
    LET z_region_start == 32 + Len(clock_thumb_data) + Len(clock_img_data)
    IN  BE32(IF StartsWith(name, ZPrefix) THEN z_region_start + LocalOffset(name)
             ELSE LocalOffset(name))
        \o BE32(Len(InData(file_list[ChunkIndex(name)])))

\* the row of the element table that applies to element e at index i: the
\* first whose condition holds
RefRow(layer, i, e) ==
    IF layer.drawType \in {10, 15, 21} THEN 1
    ELSE IF layer.drawType = 55 /\ i = 2 THEN 2
    ELSE IF layer.dataType \in {64, 65, 66, 67} /\ i \in {10, 11} THEN 3
    ELSE IF layer.drawType = 8 /\ i \in {0, 1, 2} THEN 4
    ELSE IF e.t = "int" THEN 5
    ELSE 6

\* the element has the shape its row encodes, and its name has a chunk
RefElemDefined(layer, i, e) ==
    CASE RefRow(layer, i, e) = 1 -> e.t = "list" /\ ChunkIndex(e.s) > 0
      [] RefRow(layer, i, e) = 2 -> e.t = "str"
      [] RefRow(layer, i, e) \in {3, 4, 5} -> e.t = "int"
      [] OTHER -> e.t = "str" /\ ChunkIndex(e.s) > 0

\* the bytes of element e at index i
RefElem(layer, i, e) ==
    CASE RefRow(layer, i, e) = 1 -> BE32(e.a) \o BE32(e.b) \o RefImage(e.s)
      [] RefRow(layer, i, e) = 2 -> Text30(e.s)
      [] RefRow(layer, i, e) \in {3, 4, 5} -> BE32(e.v)
      [] OTHER -> RefImage(e.s)

\* every element of the layer can be encoded
RefLayerDefined(layer) ==
    \A i \in 1..Len(layer.imgArr) : RefElemDefined(layer, i - 1, layer.imgArr[i])

\* the record of a layer
RefLayer(layer) ==
    BE32(layer.drawType) \o BE32(layer.dataType)
    \o (IF layer.dataType \in {52, 59, 130} THEN BE32(layer.interval) ELSE <<>>)
    \o (IF layer.dataType = 112
        THEN BE32(layer.area_num[1]) \o BE32(layer.area_num[2])
             \o BE32(layer.area_num[3]) \o BE32(layer.area_num[4])
        ELSE <<>>)
    \o BE32(layer.alignType) \o BE32(layer.x) \o BE32(layer.y) \o BE32(layer.num)
    \o Concat([i \in 1..Len(layer.imgArr) |-> RefElem(layer, i - 1, layer.imgArr[i])])

(***************************************************************************)
(* C6.  The layer block is the concatenation, in descriptor order, of the  *)
(* reference encodings of the layers serialized so far: big-endian i32     *)
(* drawType, dataType, interval iff dataType in {52, 59, 130}, the four    *)
(* area_num integers iff dataType = 112, alignType, x, y, num, then each   *)
(* imgArr element by the first matching row of the element table; and the  *)
(* serializer stops with an exception only at a layer that has no          *)
(* reference encoding.                                                     *)
(***************************************************************************)
C6_ReferenceEncoding ==
    /\ li - 1 <= Len(layer_list)
    /\ \A l \in 1..(li - 1) : RefLayerDefined(layer_list[l])
    /\ clock_layer_data = Concat([l \in 1..(li - 1) |-> RefLayer(layer_list[l])])
    /\ (pc = "done" /\ checked = "True" /\ result = "raise")
          => ~RefLayerDefined(layer_list[li])
    /\ (pc = "done" /\ result = "ok") => li - 1 = Len(layer_list)

\* a finished pack of a 3-tuple layer followed by a text layer with
\* area_num whose text is longer than 30 bytes
C6_Witness ==
    /\ pc = "done" /\ result = "ok"
    /\ Len(layer_list) = 2
    /\ layer_list[1].drawType = 10 /\ layer_list[1].dataType = 52
    /\ layer_list[2].drawType = 55 /\ layer_list[2].dataType = 112
    /\ Len(layer_list[2].imgArr[3].s) > 30
    /\ Len(clock_layer_data) = 60 + 78


(***************************************************************************)
(* Case-insensitive lookup: a reference is respelled as the chunk name it  *)
(* equals up to letter case.                                               *)
(***************************************************************************)
\* the index in file_list of the chunk whose name is name up to letter case
ChunkIndexAnyCase(name) ==
    Max({0} \cup {k \in 1..Len(file_list) :
                    Lower(ChunkName(k)) = Lower(name) /\ RegionOfFile(k) # "thumbnail"})

\* the layer with every image reference spelled as its chunk is
Respelled(layer) ==
    [layer EXCEPT !.imgArr =
        [i \in 1..Len(layer.imgArr) |->
            LET e == layer.imgArr[i]
            IN  IF IsImageRef(layer, i - 1, e) /\ e.t # "int" /\ ChunkIndexAnyCase(e.s) > 0
                THEN [e EXCEPT !.s = ChunkName(ChunkIndexAnyCase(e.s))]
                ELSE e]]

\* every layer has num elements and can be encoded once respelled
ResolvableAnyCase ==
    \A l \in 1..Len(layer_list) :
        /\ Len(layer_list[l].imgArr) = layer_list[l].num
        /\ RefLayerDefined(Respelled(layer_list[l]))

(***************************************************************************)
(* C7.  Filename lookups are case-insensitive: when every reference of the *)
(* descriptor names a prepared file up to letter case, the validator       *)
(* accepts the descriptor and the serializer writes for each reference the *)
(* (offset, length) of the exactly spelled name, in the main region and in *)
(* the Z-region.  (A pack whose --thumbnail file is missing is left out.)  *)
(***************************************************************************)
C7_CaseInsensitiveLookup ==
    (pc = "done" /\ thumbnail_path_override # "missing" /\ file_list # <<>>
        /\ ResolvableAnyCase)
        => /\ checked = "True"
           /\ result = "ok"
           /\ clock_layer_data
                = Concat([l \in 1..Len(layer_list) |-> RefLayer(Respelled(layer_list[l]))])


(***************************************************************************)
(* C8.  check_clock examines every layer and every element, never raises,  *)
(* and returns failure exactly when a mismatch exists: a layer whose       *)
(* imgArr has not num elements, a string element that names no file of the *)
(* directory (the element at index 2 of a drawType 55 layer excepted), or  *)
(* a list element whose last item names no file of the directory.          *)
(* Integer elements are no mismatch.                                       *)
(***************************************************************************)
\* name is, up to letter case, a file of the watch face directory
NamesAFile(name) ==
    \/ \E i \in 1..Len(src_dir) : Lower(src_dir[i].name) = Lower(name)
    \/ Lower(name) = ConfigJson

MismatchExists ==
    \E l \in 1..Len(layer_list) :
        LET layer == layer_list[l]
        IN  \/ Len(layer.imgArr) # layer.num
            \/ \E i \in 1..Len(layer.imgArr) :
                  LET e == layer.imgArr[i]
                  IN  \/ e.t = "str" /\ ~(layer.drawType = 55 /\ i - 1 = 2) /\ ~NamesAFile(e.s)
                      \/ e.t = "list" /\ ~NamesAFile(e.s)

C8_ValidatorReportsEveryMismatch ==
    checked # "none" =>
        /\ checked \in {"True", "False"}
        /\ checked = "False" <=> MismatchExists

(***************************************************************************)
(* C9.  If the conversion or transcoding of a source image fails during    *)
(* pack (a PNG that cannot be decoded, a name ending in 8888 on an image   *)
(* without alpha), the pack ends in failure and leaves no output file: it  *)
(* never reports success with that image missing from the payload.         *)
(***************************************************************************)
\* the PNG files of the source directory that pack sets out to convert
SourcePngs ==
    {i \in 1..Len(src_dir) :
        ~src_dir[i].sub /\ Lower(Extension(src_dir[i].name)) = <<"p", "n", "g">>}

\* the conversion of source file i fails
ConversionFails(i) ==
    \/ ~src_dir[i].img.ok
    \/ EndsWith(SplitDot(src_dir[i].name)[1], <<"8", "8", "8", "8">>) /\ ~src_dir[i].img.alpha

C9_ConversionFailureAborts ==
    (pc = "done" /\ \E i \in SourcePngs : ConversionFails(i))
        => result # "ok" /\ ~out_exists

(***************************************************************************)
(* C10.  The output does not depend on the order in which the bmp_2_rgb    *)
(* workers of the pool start and finish: every pack ends as the pipeline   *)
(* that creates the .RGB files one after the other ends, with the same     *)
(* bytes in the output file; and no .RGB file is listed, compressed or     *)
(* assembled before every worker has finished.                             *)
(***************************************************************************)
C10_OutputIndependentOfWorkers ==
    /\ pc \in {"list_files", "open_thumbnail", "assets", "layers"}
          => running = {} /\ next_task > Len(tasks)
    /\ (pc = "done" /\ checked = "True")
          => LET seq == PackFrom(src_dir, SequentialTmp(src_dir, fs_order), layer_list,
                                 is_compress, thumbnail_path_override, fs_order,
                                 idle_magic, clock_size, clock_id_base)
             IN  result = seq.result /\ out_file = seq.out


(***************************************************************************)
(* C11.  In every written file, whether pack was started by cli_main or by *)
(* a call of gen_clock_res, bytes 0..7 are Sb@*O2GG, or II@*24dG for an    *)
(* idle face; the high 16 bits of the big-endian u32 at bytes 8..11 are    *)
(* the resolution prefix of the selected face size, and its low 16 bits    *)
(* are clock_id_base, which lies in 50000..65535.                          *)
(***************************************************************************)
C11_MagicAndClockId ==
    out_exists =>
        /\ SubSeq(out_file, 1, 8) = IF idle_magic THEN <<73, 73, 64, 42, 50, 52, 100, 71>>
                                    ELSE <<83, 98, 64, 42, 79, 50, 71, 71>>
        /\ (U32At(out_file, 8) \div 65536) * 65536 = g_clock_id_prefix_dict(clock_size)
        /\ U32At(out_file, 8) % 65536 = clock_id_base
        /\ clock_id_base \in 50000..65535

(***************************************************************************)
(* C12.  When --face-size is given and the first image of the first layer  *)
(* has other dimensions than that face size, pack aborts and writes no     *)
(* output file, as it does when the detected resolution is not allowed.    *)
(***************************************************************************)
\* the first image of the first layer, where there is one: a set of at most
\* one file
FirstLayerImage ==
    IF layer_list = <<>> \/ layer_list[1].imgArr = <<>> THEN {}
    ELSE {i \in 1..Len(src_dir) :
            /\ layer_list[1].imgArr[1].t # "int"
            /\ ~src_dir[i].sub
            /\ src_dir[i].img.ok
            /\ src_dir[i].name = layer_list[1].imgArr[1].s}

\* the face size, W_H, names the dimensions w x h
SizeIs(size, w, h) ==
    \/ size = "466_466" /\ w = 466 /\ h = 466
    \/ size = "360_360" /\ w = 360 /\ h = 360

C12_FaceSizeMismatchAborts ==
    (pc = "done" /\ entry = "cli" /\ args.face_size # <<>>
        /\ \E i \in FirstLayerImage :
              ~SizeIs(args.face_size[1], src_dir[i].img.w, src_dir[i].img.h))
        => result # "ok" /\ ~out_exists


(***************************************************************************)
(* C13.  Validation is sufficient for serialization: when check_clock      *)
(* accepts the watch face and every image converts without error,          *)
(* gen_clock_res returns its result or False and never ends with an        *)
(* unhandled exception of the serializer, also when a referenced file is a *)
(* BMP source, lies in a sub-directory, has more than one dot in its name  *)
(* or is the file taken as thumbnail.                                      *)
(***************************************************************************)
C13_ValidationSufficient ==
    (pc = "done" /\ checked = "True" /\ ~\E i \in SourcePngs : ConversionFails(i))
        => result \in {"ok", "False"}


(***************************************************************************)
(* C14.  Every RGB565 chunk bmp_2_rgb writes from a 24-bit or 32-bit BMP   *)
(* (a 32-bit BMPA whose stem ends with 565 included) holds width * height  *)
(* little-endian u16 values, rows top-down whatever the row direction of   *)
(* the BMP, and the value at row y, column x is                            *)
(* ((R & 0xF8) << 8) | ((G & 0xFC) << 3) | ((B & 0xF8) >> 3) of the R, G,  *)
(* B bytes of pixel (x, y) of the source.                                  *)
(***************************************************************************)
\* the B, G, R bytes of pixel (x, y) of a BMP, y counted from the top
SourcePixel(bmp, x, y) ==
    LET row == IF bmp.top_down THEN bmp.rows[y] ELSE bmp.rows[bmp.h - y + 1]
    IN  [b |-> row[(x - 1) * bmp.bpp + 1], g |-> row[(x - 1) * bmp.bpp + 2],
         r |-> row[(x - 1) * bmp.bpp + 3]]

\* the RGB565 value of a pixel, as two little-endian bytes
Value565LE(p) ==
    LET v == (p.r \div 8) * 2048 + (p.g \div 4) * 32 + (p.b \div 8)
    IN  <<v % 256, v \div 256>>

\* the RGB565 payload of a BMP
Payload565(bmp) ==
    Concat([y \in 1..bmp.h |->
              Concat([x \in 1..bmp.w |-> Value565LE(SourcePixel(bmp, x, y))])])

C14_Rgb565Pixels ==
    \A i \in 1..Len(tasks), j \in 1..Len(tmp_dir) :
        (/\ tmp_dir[j].name = tasks[i].name \o ExtRGB
         /\ tmp_dir[j].bytes[1] = 73
         /\ tasks[i].bmp.bpp \in {3, 4})
            => /\ Len(tmp_dir[j].bytes) = 16 + 2 * tasks[i].bmp.w * tasks[i].bmp.h
               /\ Drop(tmp_dir[j].bytes, 16) = Payload565(tasks[i].bmp)


(***************************************************************************)
(* C15.  Every 16-byte chunk header, written by bmp_2_rgb or put before a  *)
(* JPG or GIF file by the asset loop, loses nothing: the little-endian     *)
(* 24-bit number of bytes 2..4 is the payload size, the 12-bit height and  *)
(* width unpacked from bytes 5..7 are the image's, and bytes 8..15 are     *)
(* zero.  A payload of 2^24 bytes or more, or a dimension of 4096 or more, *)
(* never gets a header: the operation fails instead.                       *)
(***************************************************************************)
\* the header says size, width and height
HeaderDescribes(header, size, width, height) ==
    /\ header[3] + 256 * header[4] + 65536 * header[5] = size
    /\ header[6] + 256 * (header[7] % 16) = height
    /\ (header[7] \div 16) + 16 * header[8] = width
    /\ SubSeq(header, 9, 16) = Zeros(8)

\* the first 16 bytes of the chunk the asset loop appended for file k
AppendedHeader(k) ==
    LET data == IF RegionOfFile(k) = "z" THEN clock_z_img_data ELSE clock_img_data
        at   == LengthBefore(RegionOfFile(k), k - 1)
    IN  SubSeq(data, at + 1, at + 16)

\* the files of file_list the asset loop gives a header
Synthesized ==
    {k \in 1..Len(file_list) :
        Lower(SplitDot(file_list[k].name)[2]) \in {<<"j", "p", "g">>, <<"g", "i", "f">>}}

C15_HeaderLossless ==
    /\ \A i \in 1..Len(tasks), j \in 1..Len(tmp_dir) :
           tmp_dir[j].name = tasks[i].name \o ExtRGB
               => HeaderDescribes(SubSeq(tmp_dir[j].bytes, 1, 16),
                                  Len(tmp_dir[j].bytes) - 16, tasks[i].bmp.w, tasks[i].bmp.h)
    /\ \A k \in Synthesized :
           (pc \in {"assets", "layers"} /\ k < fi
                /\ RegionOfFile(k) # "thumbnail")
               => HeaderDescribes(AppendedHeader(k), Len(file_list[k].bytes),
                                  file_list[k].img.w, file_list[k].img.h)


(***************************************************************************)
(* C16.  After the compression stage, a .RGB chunk whose header byte 1 is  *)
(* already 1 has passed through unchanged: the byte-identical chunk is     *)
(* among the files the following stage embeds.  For a chunk whose byte 1   *)
(* is 0 the stage has written, and the list holds, the same header with    *)
(* byte 1 set to 1 (bytes 2..4 rewritten only when the declared length is  *)
(* zero or larger than the payload there is) followed by the LZ4 block of  *)
(* the first payload_len bytes of the payload.                             *)
(***************************************************************************)
\* the .RGB chunks of the temporary directory
RgbChunks ==
    {j \in 1..Len(tmp_dir) :
        Extension(tmp_dir[j].name) = <<"R", "G", "B">> /\ Len(tmp_dir[j].bytes) >= 16}

\* the .COMP chunk expected for a blob whose byte 1 is 0
Compressed(blob) ==
    LET declared == blob[3] + 256 * blob[4] + 65536 * blob[5]
        there    == Len(blob) - 16
        payload_len == IF declared = 0 \/ declared > there THEN there ELSE declared
    IN  <<blob[1], 1, payload_len % 256, (payload_len \div 256) % 256, payload_len \div 65536>>
            \o SubSeq(blob, 6, 16) \o Lz4Block(SubSeq(blob, 17, 16 + payload_len))

\* the following stage embeds a file of these bytes
Embeds(bytes) == \E k \in 1..Len(file_list) : file_list[k].bytes = bytes

C16_AlreadyCompressedPassesThrough ==
    (pc = "done" /\ entry = "image_pre_build" /\ is_compress)
        => \A j \in RgbChunks :
              /\ tmp_dir[j].bytes[2] = 1 => Embeds(tmp_dir[j].bytes)
              /\ tmp_dir[j].bytes[2] = 0 =>
                    /\ Embeds(Compressed(tmp_dir[j].bytes))
                    /\ \E c \in 1..Len(tmp_dir) :
                          /\ tmp_dir[c].name = SplitExtRoot(tmp_dir[j].name) \o ExtCOMP
                          /\ tmp_dir[c].bytes = Compressed(tmp_dir[j].bytes)


=============================================================================
